---------------------------- MODULE Spec2Model ----------------------------
(***************************************************************************)
(* Model of the Modbus TCP transport (MBAP framing, transaction matching)  *)
(* and of the UDP socket wrapper that lets the same framing code consume a *)
(* datagram socket byte by byte.                                           *)
(*                                                                         *)
(*   src/unnamed/part_000   tcpTransport (ExecuteRequest, ReadRequest,     *)
(*                          WriteResponse, readResponse, readMBAPFrame,    *)
(*                          assembleMBAPFrame)                             *)
(*   src/udp.go             udpSockWrapper (Read and the pass-throughs)    *)
(*                                                                         *)
(* Bytes are integers 0..255, byte slices are sequences.  A socket is a    *)
(* record: for a TCP connection the bytes the peer has sent and the        *)
(* transport has not read yet (stream); for a wrapped UDP socket the queue *)
(* of datagrams not received yet (net) and the wrapper's rxbuf and         *)
(* leftoverCount.                                                          *)
(***************************************************************************)
EXTENDS Integers, Sequences

(***************************************************************************)
(* Program constants.                                                      *)
(***************************************************************************)
maxTCPFrameLength == 260

mbapHeaderLength == 7

\* lastTxnId, txnId and the MBAP fields are uint16: arithmetic is modulo this.
Uint16Range == 65536

(***************************************************************************)
(* Bounds of the model.                                                    *)
(***************************************************************************)
\* ExecuteRequest/ReadRequest/WriteResponse calls started in one behaviour.
MaxCalls == 2

\* ReadRequest/WriteResponse calls started in one behaviour of a server.
MaxServerCalls == 3

\* Frames (TCP) or datagrams (UDP) the peer sends in one behaviour.
MaxDeliver == 2

(***************************************************************************)
(* Helpers on byte sequences.                                              *)
(***************************************************************************)
Min(a, b) == IF a < b THEN a ELSE b

Take(s, n) == SubSeq(s, 1, Min(n, Len(s)))

Drop(s, n) == SubSeq(s, Min(n, Len(s)) + 1, Len(s))

\* The element of a one-element set.  { F(x) : x \in { e } } evaluates e once
\* and hands its value to F.
Only(S) == CHOOSE x \in S : TRUE

\* uint16ToBytes(BIG_ENDIAN, v): most significant byte first.
uint16ToBytes(v) == << v \div 256, v % 256 >>

\* bytesToUint16(BIG_ENDIAN, b)
bytesToUint16(b) == b[1] * 256 + b[2]

\* The conversion uint16(x) of a non-negative int: truncation to 16 bits.
ToUint16(x) == x % Uint16Range

\* The pdu struct.
Pdu(u, fc, pl) == [unitId |-> u, functionCode |-> fc, payload |-> pl]

\* A nil *pdu.
NoPdu == [unitId |-> -1, functionCode |-> -1, payload |-> << >>]

(***************************************************************************)
(* tcpTransport.assembleMBAPFrame                                          *)
(***************************************************************************)
\* Mutation: the length field counts the payload only.
assembleMBAPFrame_LenOff(txnId, p) ==
    uint16ToBytes(txnId) \o << 0, 0 >>
        \o uint16ToBytes(ToUint16(Len(p.payload)))
        \o << p.unitId >> \o << p.functionCode >> \o p.payload

assembleMBAPFrame(txnId, p) ==
    uint16ToBytes(txnId)                                \* transaction identifier
        \o << 0, 0 >>                                   \* protocol identifier
        \o uint16ToBytes(ToUint16(2 + Len(p.payload)))  \* length
        \o << p.unitId >>                               \* unit identifier
        \o << p.functionCode >>                         \* function code
        \o p.payload                                    \* payload

(***************************************************************************)
(* Sockets.  cond is the condition of the connection during the call:      *)
(*   "open"     the deadline has not passed: a read that finds nothing to  *)
(*              return waits, and (no data arriving) the deadline fires    *)
(*              while it waits: it returns a timeout, waited = TRUE;       *)
(*   "expired"  the deadline passed before the read: every network read    *)
(*              returns a timeout at once;                                 *)
(*   "closed"   the peer closed the stream: a read that finds nothing      *)
(*              returns EOF.                                               *)
(***************************************************************************)
ZeroBuf == [i \in 1..maxTCPFrameLength |-> 0]

\* The result of one Read(buf) with len(buf) = k: the socket afterwards, the
\* bytes put into buf, the error, whether the deadline fired while the read
\* waited, and the number of network receives it made.
ReadResult(s, data, err, waited, recvs) ==
    [s |-> s, data |-> data, n |-> Len(data), err |-> err,
     waited |-> waited, recvs |-> recvs]

\* net.Conn.Read of a TCP connection.
TcpRead(s, k, cond) ==
    IF cond = "expired" THEN ReadResult(s, << >>, "timeout", FALSE, 0)
    ELSE IF Len(s.stream) > 0
         THEN ReadResult([s EXCEPT !.stream = Drop(s.stream, k)],
                         Take(s.stream, k), "nil", FALSE, 1)
    ELSE IF cond = "closed" THEN ReadResult(s, << >>, "EOF", FALSE, 1)
    ELSE ReadResult(s, << >>, "timeout", TRUE, 1)

\* copy(dst, src) into the front of a buffer: the first Len(src) bytes of buf
\* are replaced (src is never longer than buf here).
CopyInto(buf, src) ==
    [i \in 1..Len(buf) |-> IF i <= Len(src) THEN src[i] ELSE buf[i]]

\* Mutation: the leftover bytes are not moved to the front of the buffer.
UswShift_NoMove(buf, copied, upto) == buf

\* Mutation: the move starts one byte early.
UswShift_OffByOne(buf, copied, upto) ==
    IF upto > copied /\ copied > 0
    THEN [i \in 1..Len(buf) |->
            IF i <= upto - copied + 1 THEN buf[copied + i - 1] ELSE buf[i]]
    ELSE buf

\* copy(usw.rxbuf, usw.rxbuf[copied:upto]) when upto > copied.
UswShift(buf, copied, upto) ==
    IF upto > copied THEN CopyInto(buf, SubSeq(buf, copied + 1, upto)) ELSE buf

\* Mutation: a Read with leftover bytes also receives from the network.
UswNeedsRecv_Always(leftover) == TRUE

\* The branch of udpSockWrapper.Read: the network is read only when no
\* leftover bytes are held.
UswNeedsRecv(leftover) == ~(leftover > 0)

\* Mutation: what of a datagram does not fit buf is dropped, as a Read of
\* the UDP socket itself does.
UswRead_Discard(s, k, cond) ==
    IF cond = "expired" THEN ReadResult(s, << >>, "timeout", FALSE, 1)
    ELSE IF Len(s.net) = 0 THEN ReadResult(s, << >>, "timeout", TRUE, 1)
    ELSE ReadResult([s EXCEPT !.net = Tail(s.net)],
                    Take(Head(s.net), k), "nil", FALSE, 1)

\* udpSockWrapper.Read(buf) with len(buf) = k.
UswRead(s, k, cond) ==
    IF ~UswNeedsRecv(s.leftoverCount)
    THEN LET copied == Min(k, s.leftoverCount)
         IN  ReadResult(
                [s EXCEPT !.rxbuf = UswShift(s.rxbuf, copied, s.leftoverCount),
                          !.leftoverCount = s.leftoverCount - copied],
                SubSeq(s.rxbuf, 1, copied), "nil", FALSE, 0)
    ELSE \* usw.sock.Read(usw.rxbuf): one datagram, cut to the buffer's size
         IF cond = "expired" THEN ReadResult(s, << >>, "timeout", FALSE, 1)
         ELSE IF Len(s.net) = 0 THEN ReadResult(s, << >>, "timeout", TRUE, 1)
         ELSE LET dgram  == Take(Head(s.net), maxTCPFrameLength)
                  rlen   == Len(dgram)
                  filled == CopyInto(s.rxbuf, dgram)
                  copied == Min(k, rlen)
              IN  ReadResult(
                     [s EXCEPT !.net = Tail(s.net),
                               !.rxbuf = UswShift(filled, copied, rlen),
                               !.leftoverCount = rlen - copied],
                     SubSeq(filled, 1, copied), "nil", FALSE, 1)

\* Read of whatever the transport wraps.
SockRead(s, k, cond) ==
    IF s.kind = "tcp" THEN TcpRead(s, k, cond) ELSE UswRead(s, k, cond)

(***************************************************************************)
(* io.ReadFull(tt.socket, rxbuf): Read is called until need more bytes     *)
(* have been read or a Read fails.  An EOF after some bytes is reported as *)
(* ErrUnexpectedEOF.                                                       *)
(***************************************************************************)
\* What the loop does with the result r of one Read.
RECURSIVE ReadFullLoop(_, _, _, _, _)
ReadFullNext(r, need, got, recvs, cond) ==
    IF r.err # "nil"
    THEN ReadResult(r.s, got,
            IF r.err = "EOF" /\ Len(got) > 0 THEN "ErrUnexpectedEOF" ELSE r.err,
            r.waited, recvs + r.recvs)
    ELSE ReadFullLoop(r.s, need - r.n, got \o r.data, recvs + r.recvs, cond)

ReadFullLoop(s, need, got, recvs, cond) ==
    IF need = 0
    THEN ReadResult(s, got, "nil", FALSE, recvs)
    ELSE Only({ ReadFullNext(r, need, got, recvs, cond) :
                    r \in { SockRead(s, need, cond) } })

ReadFull(s, need, cond) == ReadFullLoop(s, need, << >>, 0, cond)

(***************************************************************************)
(* tcpTransport.readMBAPFrame.  The result: the socket afterwards, the     *)
(* PDU (NoPdu for nil), the transaction id, the error, and as a record of  *)
(* what the call did: the header bytes read (hdr), the body bytes read     *)
(* (body), the network receives made and whether the deadline fired while  *)
(* a read waited.                                                          *)
(***************************************************************************)
FrameResult(s, p, txnId, err, hdr, body, recvs, waited) ==
    [s |-> s, pdu |-> p, txnId |-> txnId, err |-> err,
     hdr |-> hdr, body |-> body, recvs |-> recvs, waited |-> waited]

\* Mutation: the upper limit is applied to the body alone.
LengthIllegal_NoHeader(bytesNeeded) ==
    bytesNeeded > maxTCPFrameLength \/ bytesNeeded <= 0

\* The two length checks of readMBAPFrame, on bytesNeeded = length - 1.
LengthIllegal(bytesNeeded) ==
    bytesNeeded + mbapHeaderLength > maxTCPFrameLength \/ bytesNeeded <= 0

\* Mutation: the protocol identifier is not validated.
ProtocolIdUnknown_Never(protocolId) == FALSE

\* The protocol identifier check of readMBAPFrame.
ProtocolIdUnknown(protocolId) == protocolId # 0

\* Mutation: the function code is left in the payload.
DecodePdu_KeepFc(unitId, rxbuf) == Pdu(unitId, rxbuf[1], rxbuf)

\* The PDU readMBAPFrame builds from the unit id and the body.
DecodePdu(unitId, rxbuf) == Pdu(unitId, rxbuf[1], Tail(rxbuf))

\* readMBAPFrame once the PDU bytes have been asked for (b).
readMBAPBody(h, b) ==
    LET rxbuf      == h.data
        txnId      == bytesToUint16(SubSeq(rxbuf, 1, 2))
        protocolId == bytesToUint16(SubSeq(rxbuf, 3, 4))
        unitId     == rxbuf[7]
    IN  IF b.err # "nil"
        THEN FrameResult(b.s, NoPdu, 0, b.err, rxbuf, b.data,
                         h.recvs + b.recvs, b.waited)
        ELSE IF ProtocolIdUnknown(protocolId)
        THEN FrameResult(b.s, NoPdu, 0, "ErrUnknownProtocolId",
                         rxbuf, b.data, h.recvs + b.recvs, FALSE)
        ELSE FrameResult(b.s, DecodePdu(unitId, b.data), txnId, "nil",
                         rxbuf, b.data, h.recvs + b.recvs, FALSE)

\* Mutation: after a refused length the bytes at hand are thrown away.
readMBAPHeader_Drain(h, cond) ==
    IF h.err # "nil"
    THEN FrameResult(h.s, NoPdu, 0, h.err, h.data, << >>, h.recvs, h.waited)
    ELSE LET bytesNeeded == bytesToUint16(SubSeq(h.data, 5, 6)) - 1
         IN  IF LengthIllegal(bytesNeeded)
             THEN FrameResult([h.s EXCEPT !.stream = << >>, !.leftoverCount = 0],
                              NoPdu, 0, "ErrProtocol", h.data, << >>,
                              h.recvs, FALSE)
             ELSE Only({ readMBAPBody(h, b) :
                            b \in { ReadFull(h.s, bytesNeeded, cond) } })

\* Mutation: the protocol identifier is validated before the PDU is read.
readMBAPHeader_ProtocolFirst(h, cond) ==
    IF h.err # "nil"
    THEN FrameResult(h.s, NoPdu, 0, h.err, h.data, << >>, h.recvs, h.waited)
    ELSE LET bytesNeeded == bytesToUint16(SubSeq(h.data, 5, 6)) - 1
         IN  IF LengthIllegal(bytesNeeded)
             THEN FrameResult(h.s, NoPdu, 0, "ErrProtocol", h.data, << >>,
                              h.recvs, FALSE)
             ELSE IF ProtocolIdUnknown(bytesToUint16(SubSeq(h.data, 3, 4)))
             THEN FrameResult(h.s, NoPdu, 0, "ErrUnknownProtocolId", h.data,
                              << >>, h.recvs, FALSE)
             ELSE Only({ readMBAPBody(h, b) :
                            b \in { ReadFull(h.s, bytesNeeded, cond) } })

\* readMBAPFrame once the header bytes have been asked for (h).
readMBAPHeader(h, cond) ==
    IF h.err # "nil"
    THEN FrameResult(h.s, NoPdu, 0, h.err, h.data, << >>, h.recvs, h.waited)
    ELSE LET bytesNeeded == bytesToUint16(SubSeq(h.data, 5, 6)) - 1
         IN  IF LengthIllegal(bytesNeeded)
             THEN FrameResult(h.s, NoPdu, 0, "ErrProtocol", h.data, << >>,
                              h.recvs, FALSE)
             ELSE Only({ readMBAPBody(h, b) :
                            b \in { ReadFull(h.s, bytesNeeded, cond) } })

readMBAPFrame(s, cond) ==
    Only({ readMBAPHeader(h, cond) :
                h \in { ReadFull(s, mbapHeaderLength, cond) } })

(***************************************************************************)
(* State.                                                                  *)
(***************************************************************************)
VARIABLES
    kind,           \* what tt.socket is: "tcp" (net.TCPConn) or "udp" (udpSockWrapper)
    stream,         \* TCP: bytes sent by the peer and not read yet
    net,            \* UDP: datagrams sent by the peer and not received yet
    rxbuf,          \* udpSockWrapper.rxbuf
    leftoverCount,  \* udpSockWrapper.leftoverCount
    expired,        \* the deadline set by the last SetDeadline has passed
    closed,         \* TCP: the peer has closed its side of the connection
    lastTxnId,      \* tcpTransport.lastTxnId
    pc,             \* "idle", or "exec": an ExecuteRequest is in readResponse
    wire,           \* the last frame handed to socket.Write with success
    result,         \* the last call: its argument and what it returned
    last,           \* what the last readMBAPFrame of the current call did
    nReads,         \* readMBAPFrame calls made by the current call
    skipped,        \* headers of the frames the current readResponse skipped
    reqHdr,         \* header of the frame the last successful ReadRequest returned
    calls,          \* transport calls started
    issued,         \* ids of the request frames ExecuteRequest has written
    delivered,      \* chunks sent by the peer
    sent,           \* codec: what was last put into the loopback stream
    lastDgram,      \* wrapper: the datagram received last
    served,         \* wrapper: the bytes of lastDgram returned so far
    lastRead,       \* wrapper: what the last Read call did, the network
                    \* receives it made and the datagrams it took
    ci,             \* concurrent callers: the transports and their connections
    cc              \* concurrent callers: each caller's call

sockVars == << kind, stream, net, rxbuf, leftoverCount >>

envVars == << expired, closed, delivered >>

ttVars ==
    << lastTxnId, pc, wire, result, last, nReads, skipped, reqHdr, calls, issued >>

codecVars == << sent >>

uswVars == << lastDgram, served, lastRead >>

concVars == << ci, cc >>

vars == << sockVars, envVars, ttVars, codecVars, uswVars, concVars >>

\* tt.socket as the operators above take it.
Sock ==
    [kind |-> kind, stream |-> stream, net |-> net,
     rxbuf |-> rxbuf, leftoverCount |-> leftoverCount]

SetSock(s) ==
    /\ kind' = s.kind
    /\ stream' = s.stream
    /\ net' = s.net
    /\ rxbuf' = s.rxbuf
    /\ leftoverCount' = s.leftoverCount

\* The condition of the connection a read meets.
ConnCond == IF expired THEN "expired" ELSE IF closed THEN "closed" ELSE "open"

\* A call that returned (*pdu, error) or error; arg is the PDU passed in.
Returned(op, arg, p, err) ==
    [op |-> op, arg |-> arg, status |-> IF err = "nil" THEN "ok" ELSE "err",
     pdu |-> p, err |-> err]

\* An ExecuteRequest that has not returned yet.
Pending(op, arg) ==
    [op |-> op, arg |-> arg, status |-> "pending", pdu |-> NoPdu, err |-> "nil"]

NoResult ==
    [op |-> "none", arg |-> NoPdu, status |-> "none", pdu |-> NoPdu, err |-> "nil"]

\* The record of a readMBAPFrame call kept in last.
FrameRecord(r) ==
    [pdu |-> r.pdu, txnId |-> r.txnId, err |-> r.err, hdr |-> r.hdr,
     body |-> r.body, recvs |-> r.recvs, waited |-> r.waited]

NoFrame ==
    [pdu |-> NoPdu, txnId |-> 0, err |-> "none", hdr |-> << >>,
     body |-> << >>, recvs |-> 0, waited |-> FALSE]

\* What was put into the loopback: by which action, with which inputs; of
\* an assembled frame its first 8 bytes (head) and its size.
SentRecord(by, t, p, payloadLen, protocolId, length, full, trail, frame) ==
    [by |-> by, txnId |-> t, pdu |-> p, payloadLen |-> payloadLen,
     protocolId |-> protocolId, length |-> length, full |-> full,
     trail |-> trail, head |-> Take(frame, 8), frameLen |-> Len(frame)]

NoSent == SentRecord("none", 0, NoPdu, 0, 0, -1, TRUE, << >>, << >>)

NoRead ==
    [k |-> 0, data |-> << >>, err |-> "none", recvs |-> 0, taken |-> 0,
     leftoverBefore |-> 0]

(***************************************************************************)
(* Inputs of the transport.                                                *)
(***************************************************************************)
\* Bytes of length n: a pattern that differs from byte to byte.
PayloadOf(n, seed) == [i \in 1..n |-> (seed + 37 * i) % 256]

\* The PDUs the callers pass to ExecuteRequest and WriteResponse.
CallPdus == { Pdu(1, 3, << 0, 0, 0, 1 >>), Pdu(255, 131, << 2 >>) }

\* The transaction id a frame carries.
HdrTxnIdOf(frame) == bytesToUint16(SubSeq(frame, 1, 2))

\* A frame with an arbitrary header.
RawFrame(txnId, protocolId, length, unitId, body) ==
    uint16ToBytes(txnId) \o uint16ToBytes(protocolId)
        \o uint16ToBytes(length) \o << unitId >> \o body

\* What the peer sends in one piece: well-formed frames with the ids of the
\* first two requests of a fresh transport and with the largest id, a frame
\* of another protocol, a frame with an illegal length field (followed by
\* further bytes), and a frame cut off in its body.
PeerChunks ==
    { RawFrame(t, 0, 3, 1, << 3, t % 256 >>) : t \in { 1, 2, Uint16Range - 1 } }
        \cup { RawFrame(1, 1, 3, 1, << 3, 9 >>) }
        \cup { RawFrame(1, 0, 255, 1, << 3, 9 >>) }
        \cup { << 0, 1, 0, 0, 0, 4, 1, 3 >> }

(***************************************************************************)
(* Initial state: a transport as newTCPTransport returns it (lastTxnId is  *)
(* the zero value), over a TCP connection or over a udpSockWrapper as      *)
(* newUDPSockWrapper returns it (a zeroed rxbuf of maxTCPFrameLength bytes,*)
(* no leftover bytes).  Nothing has been sent by the peer yet.             *)
(***************************************************************************)
InitSock(k) ==
    /\ kind = k
    /\ stream = << >>
    /\ net = << >>
    /\ rxbuf = ZeroBuf
    /\ leftoverCount = 0

InitEnv ==
    /\ expired = FALSE
    /\ closed = FALSE
    /\ delivered = 0

InitTransport ==
    /\ lastTxnId = 0
    /\ pc = "idle"
    /\ wire = << >>
    /\ result = NoResult
    /\ last = NoFrame
    /\ nReads = 0
    /\ skipped = << >>
    /\ reqHdr = << >>
    /\ calls = 0
    /\ issued = << >>

InitChecks ==
    /\ sent = NoSent
    /\ lastDgram = << >>
    /\ served = << >>
    /\ lastRead = NoRead

\* The callers that may share a transport, and the transports.
Callers == { "A", "B" }

Instances == { 1, 2 }

\* A transport as newTCPTransport returns it, with its connection: the
\* bytes received and not read yet (stream) and the ids of the requests
\* the peer has received and not answered yet (pending).
NewInstance == [lastTxnId |-> 0, stream |-> << >>, pending |-> << >>]

\* A caller: the transport it uses, where it is in ExecuteRequest, the
\* counter value it loaded (tmp) and the one it stored (own), the id of the
\* frame it wrote, the id of the frame returned to it, how its call ended,
\* whether another call ran on the same transport during its call, and the
\* calls it has made.
NewCaller(i) ==
    [inst |-> i, pc |-> "idle", tmp |-> 0, own |-> 0, wrote |-> -1, got |-> -1,
     status |-> "none", overlapped |-> FALSE, made |-> 0]

\* Callers A and B; B uses transport b.
InitConc(b) ==
    /\ ci = [i \in Instances |-> NewInstance]
    /\ cc = [c \in Callers |-> NewCaller(IF c = "A" THEN 1 ELSE b)]

\* The transport over a TCP connection.
Init ==
    /\ InitSock("tcp")
    /\ InitEnv
    /\ InitTransport
    /\ InitChecks
    /\ InitConc(1)

\* The transport over a wrapped UDP socket.
InitUdp ==
    /\ InitSock("udp")
    /\ InitEnv
    /\ InitTransport
    /\ InitChecks
    /\ InitConc(1)

(***************************************************************************)
(* The peer and the clock.                                                 *)
(***************************************************************************)
\* The peer sends a chunk: more bytes of the TCP stream, or one datagram.
Deliver(chunk) ==
    /\ delivered < MaxDeliver
    /\ ~closed
    /\ delivered' = delivered + 1
    /\ IF kind = "tcp"
       THEN stream' = stream \o chunk /\ net' = net
       ELSE net' = Append(net, chunk) /\ stream' = stream
    /\ UNCHANGED << kind, rxbuf, leftoverCount, expired, closed >>
    /\ UNCHANGED << ttVars, codecVars, uswVars, concVars >>

\* The deadline of the exchange in progress passes.
Expire ==
    /\ pc = "exec"
    /\ ~expired
    /\ expired' = TRUE
    /\ UNCHANGED << sockVars, closed, delivered, ttVars, codecVars, uswVars, concVars >>

\* The peer closes the TCP connection.
PeerClose ==
    /\ kind = "tcp"
    /\ ~closed
    /\ closed' = TRUE
    /\ UNCHANGED << sockVars, expired, delivered, ttVars, codecVars, uswVars, concVars >>

(***************************************************************************)
(* tcpTransport.ExecuteRequest, up to the call of readResponse.            *)
(* failure: which of SetDeadline and Write returns an error, if any.       *)
(***************************************************************************)
\* Mutation: the counter saturates instead of wrapping.
NextTxnId_Saturate(txnId) == Min(txnId + 1, Uint16Range - 1)

\* Mutation: the counter advances for the first request only.
NextTxnId_Once(txnId) == IF txnId = 0 THEN 1 ELSE txnId

\* tt.lastTxnId++ on a uint16.
NextTxnId(txnId) == ToUint16(txnId + 1)

ExecuteRequest(req, failure) ==
    /\ pc = "idle"
    /\ calls' = calls + 1
    /\ last' = NoFrame
    /\ nReads' = 0
    /\ skipped' = << >>
    /\ IF failure = "SetDeadline"
       THEN /\ result' = Returned("ExecuteRequest", req, NoPdu, "ErrSetDeadline")
            /\ UNCHANGED << lastTxnId, pc, wire, expired, issued >>
       ELSE /\ expired' = FALSE
            /\ lastTxnId' = NextTxnId(lastTxnId)
            /\ IF failure = "Write"
               THEN /\ result' = Returned("ExecuteRequest", req, NoPdu, "ErrWrite")
                    /\ UNCHANGED << pc, wire, issued >>
               ELSE /\ wire' = assembleMBAPFrame(lastTxnId', req)
                    /\ issued' = Append(issued, lastTxnId')
                    /\ pc' = "exec"
                    /\ result' = Pending("ExecuteRequest", req)
    /\ UNCHANGED << sockVars, closed, delivered, reqHdr >>
    /\ UNCHANGED << codecVars, uswVars, concVars >>

(***************************************************************************)
(* tcpTransport.readResponse: one iteration of its loop.                   *)
(***************************************************************************)
\* Mutation: a protocol error is skipped like an unknown protocol id.
LoopDecision_SkipProtocolError(err, txnId, expected) ==
    IF err \in { "ErrUnknownProtocolId", "ErrProtocol" } THEN "continue"
    ELSE IF err # "nil" THEN "abort"
    ELSE IF expected # txnId THEN "continue"
    ELSE "return"

\* Mutation: a timeout is taken for a frame to skip.
LoopDecision_SkipTimeout(err, txnId, expected) ==
    IF err \in { "ErrUnknownProtocolId", "timeout" } THEN "continue"
    ELSE IF err # "nil" THEN "abort"
    ELSE IF expected # txnId THEN "continue"
    ELSE "return"

\* Mutation: only a frame with a later id is skipped.
LoopDecision_AcceptOlder(err, txnId, expected) ==
    IF err = "ErrUnknownProtocolId" THEN "continue"
    ELSE IF err # "nil" THEN "abort"
    ELSE IF expected < txnId THEN "continue"
    ELSE "return"

\* Mutation: the transaction id is not compared.
LoopDecision_NoMatch(err, txnId, expected) ==
    IF err = "ErrUnknownProtocolId" THEN "continue"
    ELSE IF err # "nil" THEN "abort"
    ELSE "return"

\* What readResponse does with the result of readMBAPFrame.
LoopDecision(err, txnId, expected) ==
    IF err = "ErrUnknownProtocolId" THEN "continue"
    ELSE IF err # "nil" THEN "abort"
    ELSE IF expected # txnId THEN "continue"
    ELSE "return"

ReadResponseStep ==
    /\ pc = "exec"
    /\ \E r \in { readMBAPFrame(Sock, ConnCond) } :
       \E d \in { LoopDecision(r.err, r.txnId, lastTxnId) } :
           /\ SetSock(r.s)
           /\ expired' = (expired \/ r.waited)
           /\ last' = FrameRecord(r)
           /\ nReads' = nReads + 1
           /\ IF d = "continue"
              THEN /\ skipped' = Append(skipped, r.hdr)
                   /\ UNCHANGED << pc, result >>
              ELSE /\ pc' = "idle"
                   /\ result' =
                        IF d = "abort"
                        THEN Returned("ExecuteRequest", result.arg, NoPdu, r.err)
                        ELSE Returned("ExecuteRequest", result.arg, r.pdu, "nil")
                   /\ UNCHANGED skipped
    /\ UNCHANGED << closed, delivered, lastTxnId, wire, reqHdr, calls, issued >>
    /\ UNCHANGED << codecVars, uswVars, concVars >>

(***************************************************************************)
(* tcpTransport.ReadRequest.  SetDeadline may fail; the deadline may pass  *)
(* before the frame is read (early).                                       *)
(***************************************************************************)
\* Mutation: the incoming transaction id is not stored.
StoreTxnId_Keep(old, txnId) == old

\* Mutation: only a larger transaction id is stored.
StoreTxnId_Max(old, txnId) == IF txnId > old THEN txnId ELSE old

\* tt.lastTxnId = txnId
StoreTxnId(old, txnId) == txnId

\* Mutation: a frame of another protocol is skipped and the next one read.
ReadRequestFrame_SkipForeign(s, cond) ==
    Only({ IF r.err = "ErrUnknownProtocolId" THEN readMBAPFrame(r.s, cond) ELSE r :
                r \in { readMBAPFrame(s, cond) } })

\* req, txnId, err := tt.readMBAPFrame(): one call, whatever it returns.
ReadRequestFrame(s, cond) == readMBAPFrame(s, cond)

ReadRequest(failure, early) ==
    /\ pc = "idle"
    /\ calls' = calls + 1
    /\ skipped' = << >>
    /\ IF failure = "SetDeadline"
       THEN /\ result' = Returned("ReadRequest", NoPdu, NoPdu, "ErrSetDeadline")
            /\ last' = NoFrame
            /\ nReads' = 0
            /\ UNCHANGED << sockVars, expired, lastTxnId, reqHdr >>
       ELSE \E r \in { ReadRequestFrame(Sock,
                            IF early THEN "expired"
                            ELSE IF closed THEN "closed" ELSE "open") } :
                /\ SetSock(r.s)
                /\ expired' = (early \/ r.waited)
                /\ last' = FrameRecord(r)
                /\ nReads' = 1
                /\ IF r.err # "nil"
                   THEN /\ result' = Returned("ReadRequest", NoPdu, NoPdu, r.err)
                        /\ UNCHANGED << lastTxnId, reqHdr >>
                   ELSE /\ lastTxnId' = StoreTxnId(lastTxnId, r.txnId)
                        /\ reqHdr' = r.hdr
                        /\ result' = Returned("ReadRequest", NoPdu, r.pdu, "nil")
    /\ UNCHANGED << closed, delivered, pc, wire, issued >>
    /\ UNCHANGED << codecVars, uswVars, concVars >>

(***************************************************************************)
(* tcpTransport.WriteResponse.                                             *)
(***************************************************************************)
WriteResponse(res, failure) ==
    /\ pc = "idle"
    /\ calls' = calls + 1
    /\ last' = NoFrame
    /\ nReads' = 0
    /\ skipped' = << >>
    /\ IF failure = "Write"
       THEN /\ result' = Returned("WriteResponse", res, NoPdu, "ErrWrite")
            /\ UNCHANGED wire
       ELSE /\ wire' = assembleMBAPFrame(lastTxnId, res)
            /\ result' = Returned("WriteResponse", res, NoPdu, "nil")
    /\ UNCHANGED << sockVars, envVars, lastTxnId, pc, reqHdr, issued >>
    /\ UNCHANGED << codecVars, uswVars, concVars >>

(***************************************************************************)
(* The transport, used in either role.                                     *)
(***************************************************************************)
Next ==
    \/ \E chunk \in PeerChunks : Deliver(chunk)
    \/ Expire
    \/ PeerClose
    \/ \E req \in CallPdus, f \in { "none", "SetDeadline", "Write" } :
            calls < MaxCalls /\ ExecuteRequest(req, f)
    \/ ReadResponseStep
    \/ \E f \in { "none", "SetDeadline" }, early \in BOOLEAN :
            calls < MaxCalls /\ ReadRequest(f, early)
    \/ \E res \in CallPdus, f \in { "none", "Write" } :
            calls < MaxCalls /\ WriteResponse(res, f)

Spec == Init /\ [][Next]_vars

(***************************************************************************)
(* tcpTransport.Close, and the calls made on a transport after it: on a    *)
(* closed socket SetDeadline and Write fail, so that ExecuteRequest and    *)
(* ReadRequest return before anything else is done and WriteResponse       *)
(* returns the error of Write.                                             *)
(***************************************************************************)
Close ==
    /\ pc = "idle"
    /\ calls' = calls + 1
    /\ pc' = "closed"
    /\ result' = Returned("Close", NoPdu, NoPdu, "nil")
    /\ last' = NoFrame
    /\ nReads' = 0
    /\ skipped' = << >>
    /\ UNCHANGED << sockVars, envVars, lastTxnId, wire, reqHdr, issued >>
    /\ UNCHANGED << codecVars, uswVars, concVars >>

CallAfterClose(op) ==
    /\ pc = "closed"
    /\ calls' = calls + 1
    /\ result' = Returned(op, NoPdu, NoPdu, "ErrClosed")
    /\ last' = NoFrame
    /\ nReads' = 0
    /\ skipped' = << >>
    /\ UNCHANGED << sockVars, envVars, lastTxnId, pc, wire, reqHdr, issued >>
    /\ UNCHANGED << codecVars, uswVars, concVars >>

NextFull ==
    \/ Next
    \/ calls < MaxCalls /\ Close
    \/ \E op \in { "ExecuteRequest", "ReadRequest", "WriteResponse", "Close" } :
            calls < MaxCalls /\ CallAfterClose(op)

SpecFull == Init /\ [][NextFull]_vars

(***************************************************************************)
(* The transport used as a server only: ReadRequest and WriteResponse.     *)
(***************************************************************************)
NextServer ==
    \/ \E chunk \in PeerChunks : Deliver(chunk)
    \/ PeerClose
    \/ \E f \in { "none", "SetDeadline" }, early \in BOOLEAN :
            calls < MaxServerCalls /\ ReadRequest(f, early)
    \/ \E res \in CallPdus, f \in { "none", "Write" } :
            calls < MaxServerCalls /\ WriteResponse(res, f)

SpecServer == Init /\ [][NextServer]_vars

(***************************************************************************)
(* The transport used as a client only, over a TCP connection or over a    *)
(* wrapped UDP socket.  Every readMBAPFrame either takes bytes the peer    *)
(* has sent or ends the call, so a call makes fewer than MaxReads of them; *)
(* the guard only keeps the state space finite.                            *)
(***************************************************************************)
MaxReads == MaxDeliver + 2

InitAny ==
    /\ (InitSock("tcp") \/ InitSock("udp"))
    /\ InitEnv
    /\ InitTransport
    /\ InitChecks
    /\ InitConc(1)

\* One more iteration of the loop of readResponse.
ReadResponseLoop ==
    /\ nReads < MaxReads
    /\ ReadResponseStep

NextClient ==
    \/ \E chunk \in PeerChunks : Deliver(chunk)
    \/ Expire
    \/ PeerClose
    \/ \E req \in CallPdus, f \in { "none", "SetDeadline", "Write" } :
            calls < MaxCalls /\ ExecuteRequest(req, f)
    \/ ReadResponseLoop

SpecClient == InitAny /\ [][NextClient]_vars

\* The steps of ReadResponseLoop, told by what they do to nReads: no other
\* step of NextClient adds a read while a call is in readResponse.
ReadResponseTurn ==
    /\ pc = "exec"
    /\ nReads < MaxReads
    /\ nReads' = nReads + 1

\* The goroutine in ExecuteRequest keeps running: a read returns when bytes
\* arrive or, at the latest, when the deadline passes.
SpecClientFair == SpecClient /\ WF_nReads(ReadResponseTurn)

\* The calls that read frames, ExecuteRequest and ReadRequest, over a TCP
\* connection or over a wrapped UDP socket.
NextReaders ==
    \/ NextClient
    \/ \E f \in { "none", "SetDeadline" }, early \in BOOLEAN :
            calls < MaxCalls /\ ReadRequest(f, early)

SpecAny == InitAny /\ [][NextReaders]_vars

(***************************************************************************)
(* The transport over a wrapped UDP socket whose peer sends one complete   *)
(* frame with a legal length field in every datagram.                      *)
(***************************************************************************)
\* Frames with several transaction ids, of protocol 0 and of another
\* protocol, of the usual and of the largest size.
AlignedChunks ==
    { RawFrame(t, 0, 3, 1, << 3, t % 256 >>) : t \in { 1, 2, Uint16Range - 1 } }
        \cup { RawFrame(1, 1, 3, 1, << 3, 9 >>) }
        \cup { RawFrame(1, 0, maxTCPFrameLength - mbapHeaderLength + 1, 1,
                         PayloadOf(maxTCPFrameLength - mbapHeaderLength, 3)) }

NextAligned ==
    \/ \E chunk \in AlignedChunks : Deliver(chunk)
    \/ Expire
    \/ \E req \in CallPdus, f \in { "none", "SetDeadline", "Write" } :
            calls < MaxCalls /\ ExecuteRequest(req, f)
    \/ ReadResponseStep
    \/ \E f \in { "none", "SetDeadline" }, early \in BOOLEAN :
            calls < MaxCalls /\ ReadRequest(f, early)
    \/ \E res \in CallPdus, f \in { "none", "Write" } :
            calls < MaxCalls /\ WriteResponse(res, f)

SpecAligned == InitUdp /\ [][NextAligned]_vars

(***************************************************************************)
(* The codec alone: assembleMBAPFrame and readMBAPFrame over a loopback.   *)
(* A frame is put into an otherwise empty stream, followed or not by       *)
(* further bytes (trail), and readMBAPFrame is applied to the stream once; *)
(* the stream ends after these bytes.                                      *)
(***************************************************************************)
\* Transaction ids: the smallest, the largest, and ids around a byte boundary.
CodecTxnIds == { 0, 1, 255, 256, Uint16Range - 1 }

\* Payload lengths: every length up to the first one readMBAPFrame refuses
\* (maxTCPFrameLength - mbapHeaderLength - 1 = 252 is the longest it takes).
CodecPayloadLens == 0..(maxTCPFrameLength - mbapHeaderLength)

\* The longest payload whose length field fits 16 bits, and the next one.
LongPayloadLens == { Uint16Range - 3, Uint16Range - 2 }

CodecPdu(n) == Pdu((7 * n + 1) % 256, (3 * n + 3) % 256, PayloadOf(n, n))

CodecPdus == { CodecPdu(n) : n \in CodecPayloadLens }

Trailers == { << >>, << 170, 85 >> }

\* Length fields of injected headers: all around the legal range, and the
\* largest.
LenFields == (0..(2 * maxTCPFrameLength)) \cup { Uint16Range - 1 }

\* The number of body bytes that follow an injected header with length
\* field l: all the bytes it announces (at most two frames' worth), or one
\* less.
InjectedBodyLen(l, full) ==
    LET announced == Min(IF l > 0 THEN l - 1 ELSE 0, 2 * maxTCPFrameLength)
    IN  IF full \/ announced = 0 THEN announced ELSE announced - 1

\* assembleMBAPFrame(t, p) is written into the loopback.
Encode(t, p, trail) ==
    /\ sent.by = "none"
    /\ wire' = assembleMBAPFrame(t, p)
    /\ stream' = wire' \o trail
    /\ sent' = SentRecord("Encode", t, p, Len(p.payload), 0, -1, TRUE, trail, wire')
    /\ last' = NoFrame
    /\ UNCHANGED << kind, net, rxbuf, leftoverCount, envVars, uswVars, concVars >>
    /\ UNCHANGED << lastTxnId, pc, result, nReads, skipped, reqHdr, calls, issued >>

\* assembleMBAPFrame(t, p) for a PDU with a payload of n bytes, too long to
\* be read back: of the frame, its first bytes and its size are kept.
Assemble(t, n) ==
    /\ sent.by = "none"
    /\ \E frame \in { assembleMBAPFrame(t, CodecPdu(n)) } :
           sent' = SentRecord("Assemble", t, NoPdu, n, 0, -1, TRUE, << >>, frame)
    /\ UNCHANGED << sockVars, envVars, ttVars, uswVars, concVars >>

\* A frame with an arbitrary header is put into the loopback.
Inject(t, protocolId, l, full) ==
    /\ sent.by = "none"
    /\ stream' = RawFrame(t, protocolId, l, 17,
                          PayloadOf(InjectedBodyLen(l, full), l))
                    \o (IF full THEN << 170, 85 >> ELSE << >>)
    /\ sent' = SentRecord("Inject", t, NoPdu, 0, protocolId, l, full,
                           IF full THEN << 170, 85 >> ELSE << >>, << >>)
    /\ last' = NoFrame
    /\ UNCHANGED << kind, net, rxbuf, leftoverCount, envVars, uswVars, concVars >>
    /\ UNCHANGED << lastTxnId, pc, wire, result, nReads, skipped, reqHdr, calls, issued >>

\* readMBAPFrame reads from the loopback.
Decode ==
    /\ sent.by # "none"
    /\ last.err = "none"
    /\ \E r \in { readMBAPFrame(Sock, "closed") } :
           /\ SetSock(r.s)
           /\ last' = FrameRecord(r)
    /\ UNCHANGED << envVars, codecVars, uswVars, concVars >>
    /\ UNCHANGED << lastTxnId, pc, wire, result, nReads, skipped, reqHdr, calls, issued >>

NextCodec ==
    \/ \E t \in CodecTxnIds, p \in CodecPdus, trail \in Trailers : Encode(t, p, trail)
    \/ \E t \in CodecTxnIds, n \in LongPayloadLens : Assemble(t, n)
    \/ \E t \in { 0, 258 }, protocolId \in { 0, 1 }, l \in LenFields,
          full \in BOOLEAN : Inject(t, protocolId, l, full)
    \/ Decode

SpecCodec == Init /\ [][NextCodec]_vars

(***************************************************************************)
(* The udpSockWrapper alone: Read calls with buffers of any of the sizes   *)
(* in UswBufSizes, on a socket that receives the datagrams of UswDatagrams.*)
(***************************************************************************)
\* Datagrams: empty, shorter than a header, longer than a header, and of the
\* largest size.
UswDatagrams == { PayloadOf(n, n) : n \in { 0, 5, 12, maxTCPFrameLength } }

\* len(buf): a header, the longest rest of a frame, a whole frame, and more
\* than any datagram holds.
UswBufSizes ==
    { mbapHeaderLength, maxTCPFrameLength - mbapHeaderLength,
      maxTCPFrameLength, 2 * maxTCPFrameLength }

\* usw.Read(buf) with len(buf) = k.  A Read that finds neither leftover bytes
\* nor a datagram returns the error of the socket.
UswReadCall(k) ==
    /\ \E r \in { UswRead(Sock, k, "open") } :
           /\ SetSock(r.s)
           /\ lastRead' = [k |-> k, data |-> r.data, err |-> r.err,
                           recvs |-> r.recvs,
                           taken |-> Len(net) - Len(r.s.net),
                           leftoverBefore |-> leftoverCount]
           /\ IF r.err # "nil"
              THEN UNCHANGED << lastDgram, served >>
              ELSE IF leftoverCount > 0
              THEN /\ served' = served \o r.data
                   /\ UNCHANGED lastDgram
              ELSE /\ lastDgram' = Head(net)
                   /\ served' = r.data
    /\ UNCHANGED << envVars, ttVars, codecVars, concVars >>

NextUsw ==
    \/ \E d \in UswDatagrams : Deliver(d)
    \/ \E k \in UswBufSizes : UswReadCall(k)

SpecUsw == InitUdp /\ [][NextUsw]_vars

(***************************************************************************)
(* Callers that run ExecuteRequest with no serialization between them, on  *)
(* one transport or on one transport each.  The statements of a call that  *)
(* touch tt.lastTxnId and the socket are steps of their own: the load and  *)
(* the store of tt.lastTxnId++, the Write of the frame assembled from      *)
(* tt.lastTxnId, and each iteration of readResponse, which compares with   *)
(* tt.lastTxnId.  The peer answers every request it receives with a frame  *)
(* of the same transaction id, in any order.  The accesses of two calls    *)
(* that overlap are a data race: a read of tt.lastTxnId in such a call     *)
(* yields the value stored last or the value the reading call stored       *)
(* itself.                                                                 *)
(***************************************************************************)
\* Calls each caller makes in one behaviour.
MaxCallerCalls == 1

\* The socket of transport i as readMBAPFrame takes it.
ConnOf(i) ==
    [kind |-> "tcp", stream |-> ci[i].stream, net |-> << >>,
     rxbuf |-> ZeroBuf, leftoverCount |-> 0]

\* Another caller is inside ExecuteRequest on the transport of caller c.
OthersActive(c) ==
    { d \in Callers \ { c } : cc[d].inst = cc[c].inst /\ cc[d].pc # "idle" }

\* The values a read of tt.lastTxnId by caller c may yield.
LastTxnIdSeenBy(c) ==
    IF cc[c].overlapped
    THEN { ci[cc[c].inst].lastTxnId, cc[c].own }
    ELSE { ci[cc[c].inst].lastTxnId }

\* The answer of the peer to a request with transaction id t.
ResponseFrame(t) == RawFrame(t, 0, 3, 1, << 3, t % 256 >>)

\* ExecuteRequest is called; SetDeadline succeeds.
CallStart(c) ==
    /\ cc[c].pc = "idle"
    /\ cc[c].made < MaxCallerCalls
    /\ cc' = [d \in Callers |->
                IF d = c
                THEN [cc[c] EXCEPT !.pc = "load", !.wrote = -1, !.got = -1,
                                   !.status = "none", !.made = cc[c].made + 1,
                                   !.overlapped = OthersActive(c) # {}]
                ELSE IF d \in OthersActive(c)
                THEN [cc[d] EXCEPT !.overlapped = TRUE]
                ELSE cc[d]]
    /\ UNCHANGED ci

\* tt.lastTxnId++, the load.
CallLoad(c) ==
    /\ cc[c].pc = "load"
    /\ cc' = [cc EXCEPT ![c].pc = "store", ![c].tmp = ci[cc[c].inst].lastTxnId]
    /\ UNCHANGED ci

\* tt.lastTxnId++, the store.
CallStore(c) ==
    /\ cc[c].pc = "store"
    /\ ci' = [ci EXCEPT ![cc[c].inst].lastTxnId = NextTxnId(cc[c].tmp)]
    /\ cc' = [cc EXCEPT ![c].pc = "write", ![c].own = NextTxnId(cc[c].tmp)]

\* tt.socket.Write(tt.assembleMBAPFrame(tt.lastTxnId, req)); the peer
\* receives the request.
CallWrite(c, req) ==
    /\ cc[c].pc = "write"
    /\ \E t \in LastTxnIdSeenBy(c) :
       \E frame \in { assembleMBAPFrame(t, req) } :
           /\ cc' = [cc EXCEPT ![c].pc = "read", ![c].wrote = HdrTxnIdOf(frame)]
           /\ ci' = [ci EXCEPT ![cc[c].inst].pending =
                                    Append(@, HdrTxnIdOf(frame))]

\* One iteration of the loop of readResponse.
CallRead(c) ==
    /\ cc[c].pc = "read"
    /\ \E r \in { readMBAPFrame(ConnOf(cc[c].inst), "open") } :
       \E t \in LastTxnIdSeenBy(c) :
       \E d \in { LoopDecision(r.err, r.txnId, t) } :
           /\ ci' = [ci EXCEPT ![cc[c].inst].stream = r.s.stream]
           /\ cc' = [cc EXCEPT
                        ![c].pc = IF d = "continue" THEN "read" ELSE "idle",
                        ![c].status = IF d = "continue" THEN "none"
                                      ELSE IF d = "abort" THEN "err" ELSE "ok",
                        ![c].got = IF d = "return" THEN r.txnId ELSE -1]

\* The peer of transport i answers the k-th request it holds.
PeerRespond(i, k) ==
    /\ k \in 1..Len(ci[i].pending)
    /\ ci' = [ci EXCEPT
                ![i].stream = @ \o ResponseFrame(ci[i].pending[k]),
                ![i].pending = SubSeq(@, 1, k - 1) \o SubSeq(@, k + 1, Len(@))]
    /\ UNCHANGED cc

NextConc ==
    /\ \/ \E c \in Callers : CallStart(c)
       \/ \E c \in Callers : CallLoad(c)
       \/ \E c \in Callers : CallStore(c)
       \/ \E c \in Callers, req \in CallPdus : CallWrite(c, req)
       \/ \E c \in Callers : CallRead(c)
       \/ \E i \in Instances, k \in 1..MaxCallerCalls * 2 : PeerRespond(i, k)
    /\ UNCHANGED << sockVars, envVars, ttVars, codecVars, uswVars >>

\* Callers A and B on one transport, or on one each.
InitCallers ==
    /\ InitSock("tcp")
    /\ InitEnv
    /\ InitTransport
    /\ InitChecks
    /\ \E b \in Instances : InitConc(b)

SpecConc == InitCallers /\ [][NextConc]_vars

(***************************************************************************)
(* Properties.                                                             *)
(***************************************************************************)
\* The fields of a 7-byte MBAP header as they are on the wire.
HdrTxnId(h) == h[1] * 256 + h[2]

HdrProtocolId(h) == h[3] * 256 + h[4]

HdrLength(h) == h[5] * 256 + h[6]

\* The transaction id of the frame written last.
WireTxnId == HdrTxnId(wire)

\* The PDU a frame carries: unit id from the header, function code and
\* payload from the body.
FramePdu(h, body) == Pdu(h[7], body[1], SubSeq(body, 2, Len(body)))

\* The frame read last is complete: a full header and the length - 1 >= 1
\* body bytes it announces.
LastFrameComplete ==
    /\ Len(last.hdr) = mbapHeaderLength
    /\ Len(last.body) >= 1
    /\ Len(last.body) = HdrLength(last.hdr) - 1

InExecuteRequest == result.op = "ExecuteRequest"

(* C1: in an ExecuteRequest that wrote a frame with transaction id T, a    *)
(* well-formed frame (protocol id 0) whose id differs from T is skipped:   *)
(* the call goes on and returns nothing; no skipped frame of protocol 0    *)
(* carries T; and the call returns with success only the PDU of a frame    *)
(* whose id is T, which is therefore the first such frame.                 *)
TransactionCorrelation ==
    (InExecuteRequest /\ result.status \in { "pending", "ok" }) =>
        /\ \A i \in 1..Len(skipped) :
              HdrProtocolId(skipped[i]) = 0 => HdrTxnId(skipped[i]) # WireTxnId
        /\ (last.err = "nil" /\ HdrTxnId(last.hdr) # WireTxnId) =>
              /\ pc = "exec"
              /\ result.status = "pending"
              /\ Len(skipped) = nReads
              /\ skipped[Len(skipped)] = last.hdr
        /\ result.status = "ok" =>
              /\ LastFrameComplete
              /\ HdrProtocolId(last.hdr) = 0
              /\ HdrTxnId(last.hdr) = WireTxnId
              /\ result.pdu = FramePdu(last.hdr, last.body)
              /\ nReads = Len(skipped) + 1

\* The scenario of the spec: id 1 was sent, a frame with id 2 was skipped
\* and the call returned the frame with id 1.
StaleThenMatching ==
    /\ InExecuteRequest
    /\ result.status = "ok"
    /\ WireTxnId = 1
    /\ Len(skipped) = 1
    /\ HdrProtocolId(skipped[1]) = 0
    /\ HdrTxnId(skipped[1]) = 2
    /\ HdrTxnId(last.hdr) = 1

(* C2: a frame made by assembleMBAPFrame from a PDU with a payload of 0 to *)
(* 252 bytes and any transaction id is read back by readMBAPFrame without  *)
(* error, with the same transaction id and the same unit id, function code *)
(* and payload; exactly the bytes of the frame are consumed.               *)
RoundTrip ==
    (sent.by = "Encode" /\ last.err # "none" /\ Len(sent.pdu.payload) <= 252) =>
        /\ last.err = "nil"
        /\ last.txnId = sent.txnId
        /\ last.pdu = sent.pdu
        /\ last.hdr \o last.body = wire
        /\ stream = sent.trail

\* The longest payload, the largest transaction id, bytes following the frame.
RoundTripLongest ==
    /\ sent.by = "Encode"
    /\ last.err = "nil"
    /\ Len(sent.pdu.payload) = 252
    /\ sent.txnId = 65535
    /\ stream = << 170, 85 >>

(* C3: readMBAPFrame returns ErrProtocol and no PDU for every header whose *)
(* length field is 0, 1 or at least 255, and does not return ErrProtocol   *)
(* for a length field in 2..254; a frame of protocol 0 with such a length  *)
(* and all its bytes is accepted.                                          *)
LengthRejection ==
    (sent.by = "Inject" /\ last.err # "none") =>
        /\ (sent.length \in { 0, 1 } \/ sent.length >= 255) =>
              (last.err = "ErrProtocol" /\ last.pdu = NoPdu)
        /\ sent.length \in 2..254 => last.err # "ErrProtocol"
        /\ (sent.length \in 2..254 /\ sent.full /\ sent.protocolId = 0) =>
              (last.err = "nil" /\ last.pdu # NoPdu)

\* The first length that is too long is refused.
FirstTooLongRefused ==
    /\ sent.by = "Inject"
    /\ sent.length = 255
    /\ sent.protocolId = 0
    /\ sent.full
    /\ last.err = "ErrProtocol"

(* C4: in an ExecuteRequest, a complete frame whose protocol id is not 0   *)
(* is never the result of the call, also when its transaction id is the    *)
(* awaited one: it is skipped, the call goes on and returns no error.      *)
ProtocolIdFiltering ==
    InExecuteRequest =>
        /\ result.status = "ok" => HdrProtocolId(last.hdr) = 0
        /\ (LastFrameComplete /\ HdrProtocolId(last.hdr) # 0) =>
              /\ pc = "exec"
              /\ result.status = "pending"
              /\ last.pdu = NoPdu
              /\ Len(skipped) = nReads
              /\ skipped[Len(skipped)] = last.hdr

\* A frame of another protocol with the awaited transaction id was skipped.
ForeignFrameSkipped ==
    /\ InExecuteRequest
    /\ pc = "exec"
    /\ LastFrameComplete
    /\ HdrProtocolId(last.hdr) = 1
    /\ HdrTxnId(last.hdr) = WireTxnId

(* C5: a Read returns min(len(buf), bytes of the datagram not delivered    *)
(* yet) bytes; the bytes returned since the datagram was received are its  *)
(* first bytes in order, the wrapper holds the rest as leftover, and when  *)
(* nothing is left they are the whole datagram.                            *)
ByteStreamEmulation ==
    lastRead.err = "nil" =>
        /\ Len(served) <= Len(lastDgram)
        /\ Len(lastRead.data) =
              Min(lastRead.k,
                  Len(lastDgram) - (Len(served) - Len(lastRead.data)))
        /\ served = SubSeq(lastDgram, 1, Len(served))
        /\ leftoverCount = Len(lastDgram) - Len(served)
        /\ leftoverCount = 0 => served = lastDgram

\* A datagram of 260 bytes was read in two Reads, the second one of 253.
HeaderThenBody ==
    /\ Len(lastDgram) = 260
    /\ lastRead.k = 253
    /\ Len(lastRead.data) = 253
    /\ served = lastDgram

(* C6: a Read makes no network receive when leftover bytes are held and    *)
(* exactly one when none are; the bytes it returns are bytes of one        *)
(* datagram, also when the buffer is larger than what the datagram holds.  *)
OneDatagramPerRead ==
    lastRead.err # "none" =>
        /\ lastRead.recvs = (IF lastRead.leftoverBefore > 0 THEN 0 ELSE 1)
        /\ lastRead.taken =
              (IF lastRead.leftoverBefore > 0 \/ lastRead.err # "nil" THEN 0 ELSE 1)
        /\ lastRead.err = "nil" =>
              lastRead.data =
                  SubSeq(lastDgram, Len(served) - Len(lastRead.data) + 1, Len(served))

\* A Read with a buffer larger than the datagram returned that datagram
\* alone while another one was waiting.
LargeBufferOneDatagram ==
    /\ lastRead.err = "nil"
    /\ lastRead.leftoverBefore = 0
    /\ lastRead.k > Len(lastDgram)
    /\ Len(lastDgram) > 0
    /\ lastRead.data = lastDgram
    /\ Len(net) > 0

(* C7: a WriteResponse writes a frame with the transaction id of the frame *)
(* the most recent successful ReadRequest returned, protocol id 0, and the *)
(* unit id, function code and payload of the PDU passed in.                *)
ServerEcho ==
    (result.op = "WriteResponse" /\ result.status = "ok" /\ reqHdr # << >>) =>
        /\ SubSeq(wire, 1, 2) = SubSeq(reqHdr, 1, 2)
        /\ SubSeq(wire, 3, 4) = << 0, 0 >>
        /\ wire[7] = result.arg.unitId
        /\ wire[8] = result.arg.functionCode
        /\ SubSeq(wire, 9, Len(wire)) = result.arg.payload

\* A response to a request with id 65535, written after a later ReadRequest
\* failed.
EchoAfterFailedRead ==
    /\ result.op = "WriteResponse"
    /\ result.status = "ok"
    /\ calls = 3
    /\ last = NoFrame
    /\ Len(reqHdr) = mbapHeaderLength
    /\ HdrTxnId(reqHdr) = 65535
    /\ SubSeq(wire, 1, 2) = << 255, 255 >>

\* The step is the start of an ExecuteRequest whose SetDeadline succeeded.
PastSetDeadline ==
    /\ calls' = calls + 1
    /\ result'.op = "ExecuteRequest"
    /\ result'.err # "ErrSetDeadline"

\* What C8 says of one step.
TransactionCounterStep ==
    /\ calls = 0 => lastTxnId = 0
    /\ PastSetDeadline =>
          /\ lastTxnId' = (lastTxnId + 1) % 65536
          /\ result'.status = "pending" =>
                /\ SubSeq(wire', 1, 4) =
                      << lastTxnId' \div 256, lastTxnId' % 256, 0, 0 >>
                /\ calls = 0 => SubSeq(wire', 1, 4) = << 0, 1, 0, 0 >>
                /\ lastTxnId = 65535 => SubSeq(wire', 1, 2) = << 0, 0 >>
    /\ pc' = "exec" => lastTxnId' = HdrTxnId(wire')

(* C8: a fresh transport holds 0; an ExecuteRequest that got past          *)
(* SetDeadline advances lastTxnId by 1 modulo 65536, writes the frame with *)
(* the new value (the first request of a fresh transport begins with       *)
(* 00 01 00 00, a request made at 65535 carries 0) and awaits that value.  *)
TransactionCounter == [][TransactionCounterStep]_vars

\* A request was made when the counter was 65535: it carries id 0.
CounterWrapped ==
    /\ pc = "exec"
    /\ Len(reqHdr) = mbapHeaderLength
    /\ HdrTxnId(reqHdr) = 65535
    /\ lastTxnId = 0
    /\ SubSeq(wire, 1, 4) = << 0, 0, 0, 0 >>

(* C9, as claimed: for every PDU the frame made by assembleMBAPFrame holds *)
(* 2 + len(payload) in bytes 4..5 (big-endian), 00 00 in bytes 2..3, and   *)
(* has 8 + len(payload) bytes.                                             *)
EncoderLengthAnyPdu ==
    sent.by \in { "Encode", "Assemble" } =>
        /\ HdrLength(sent.head) = 2 + sent.payloadLen
        /\ SubSeq(sent.head, 3, 4) = << 0, 0 >>
        /\ sent.frameLen = 8 + sent.payloadLen

(* C9, amended: the same for every PDU whose payload has at most 65533     *)
(* bytes, the longest for which 2 + len(payload) fits the 16-bit field.    *)
EncoderLength ==
    (sent.by \in { "Encode", "Assemble" } /\ sent.payloadLen <= 65533) =>
        /\ HdrLength(sent.head) = 2 + sent.payloadLen
        /\ SubSeq(sent.head, 3, 4) = << 0, 0 >>
        /\ sent.frameLen = 8 + sent.payloadLen

\* The longest payload whose length fits: the length field is 65535.
EncoderLengthLargest ==
    /\ sent.by = "Assemble"
    /\ sent.payloadLen = 65533
    /\ HdrLength(sent.head) = 65535
    /\ sent.frameLen = 65541

(* C10: in an ExecuteRequest every error other than the unknown protocol   *)
(* id ends the call at once: it is returned with no PDU, and the read that *)
(* failed is the last one of the call; a failed SetDeadline or Write ends  *)
(* the call before any frame is read.                                      *)
FatalErrorsAbort ==
    InExecuteRequest =>
        /\ last.err \notin { "none", "nil", "ErrUnknownProtocolId" } =>
              /\ pc = "idle"
              /\ result.status = "err"
              /\ result.err = last.err
              /\ result.pdu = NoPdu
              /\ nReads = Len(skipped) + 1
        /\ result.status = "err" =>
              /\ pc = "idle"
              /\ result.pdu = NoPdu
              /\ result.err \in { "ErrSetDeadline", "ErrWrite" } =>
                    (nReads = 0 /\ last = NoFrame)
              /\ result.err \notin { "ErrSetDeadline", "ErrWrite" } =>
                    result.err = last.err

\* A protocol error ended a call that had skipped a frame; the bytes after
\* the refused header were not read.
ProtocolErrorAborted ==
    /\ InExecuteRequest
    /\ result.err = "ErrProtocol"
    /\ Len(skipped) = 1
    /\ nReads = 2
    /\ stream # << >>

\* The step is a ReadRequest call.
IsReadRequest ==
    /\ calls' = calls + 1
    /\ result'.op = "ReadRequest"

\* What C11 says of one step.
SingleShotStep ==
    IsReadRequest =>
        /\ nReads' <= 1
        /\ kind = "tcp" =>
              /\ last'.hdr \o last'.body = Take(stream, Len(last'.hdr) + Len(last'.body))
              /\ stream' = Drop(stream, Len(last'.hdr) + Len(last'.body))
              /\ Len(last'.hdr) <= mbapHeaderLength
        /\ last'.err = "nil" =>
              /\ result'.status = "ok"
              /\ result'.pdu = FramePdu(last'.hdr, last'.body)
              /\ lastTxnId' = HdrTxnId(last'.hdr)
        /\ (LastFrameComplete' /\ HdrProtocolId(last'.hdr) # 0) =>
              /\ nReads' = 1
              /\ result'.err = "ErrUnknownProtocolId"
              /\ result'.pdu = NoPdu

(* C11: a ReadRequest makes at most one readMBAPFrame call and takes from  *)
(* the stream the bytes of that one frame only; a frame of protocol 0 is   *)
(* accepted whatever its transaction id; a complete frame of another       *)
(* protocol makes the call return ErrUnknownProtocolId with no PDU, the    *)
(* bytes that follow it left unread.                                       *)
ReadRequestSingleShot == [][SingleShotStep]_vars

\* A frame of another protocol was refused while a further frame waited.
ForeignRequestRefused ==
    /\ result.op = "ReadRequest"
    /\ result.err = "ErrUnknownProtocolId"
    /\ nReads = 1
    /\ LastFrameComplete
    /\ Len(stream) >= mbapHeaderLength

(* C12: every ExecuteRequest that entered readResponse returns, with a PDU *)
(* or an error, whatever frames arrive and over either kind of socket: the *)
(* loop goes on only after taking a frame from the peer, and a read that   *)
(* finds the deadline passed returns a timeout, which ends the call.       *)
Termination ==
    /\ [](pc = "exec" => nReads < MaxReads)
    /\ (pc = "exec") ~> (pc = "idle" /\ result.status \in { "ok", "err" })

\* Over the wrapper, a call that skipped every frame the peer sent ended
\* with a timeout.
SkippedAllThenTimeout ==
    /\ kind = "udp"
    /\ InExecuteRequest
    /\ pc = "idle"
    /\ result.err = "timeout"
    /\ Len(skipped) = MaxDeliver
    /\ nReads = MaxDeliver + 1

(* C13: in every state of the wrapper leftoverCount is between 0 and 260   *)
(* (the size of rxbuf), and the first leftoverCount bytes of rxbuf are the *)
(* bytes of the datagram received last that no Read has returned yet, in   *)
(* order.                                                                  *)
BufferInvariant ==
    /\ leftoverCount >= 0
    /\ leftoverCount <= maxTCPFrameLength
    /\ Len(rxbuf) = maxTCPFrameLength
    /\ Len(served) <= Len(lastDgram)
    /\ SubSeq(rxbuf, 1, leftoverCount) =
          SubSeq(lastDgram, Len(served) + 1, Len(lastDgram))

\* Leftover bytes that were moved to the front of rxbuf twice.
LeftoverMovedTwice ==
    /\ Len(lastDgram) = maxTCPFrameLength
    /\ Len(served) = 2 * mbapHeaderLength
    /\ lastRead.leftoverBefore = maxTCPFrameLength - mbapHeaderLength
    /\ leftoverCount = maxTCPFrameLength - 2 * mbapHeaderLength

(* C14: a caller whose ExecuteRequest did not overlap another call on the  *)
(* same transport (the calls were serialized, or the callers use separate  *)
(* transports) and succeeded was returned a frame with the id of the frame *)
(* that call wrote.  For calls that overlap this fails: see CrossTalk.     *)
SerializedOwnResponse ==
    \A c \in Callers :
        (cc[c].status = "ok" /\ ~cc[c].overlapped) =>
            /\ cc[c].wrote >= 0
            /\ cc[c].got = cc[c].wrote

\* Two calls that overlapped on one transport: a caller was returned the
\* answer to the request of the other.
CrossTalk ==
    \E c \in Callers, d \in Callers :
        /\ c # d
        /\ cc[c].inst = cc[d].inst
        /\ cc[c].status = "ok"
        /\ cc[c].overlapped
        /\ cc[c].got # cc[c].wrote
        /\ cc[c].got = cc[d].wrote

\* The bytes of a sequence of datagrams, one after the other.
RECURSIVE Flatten(_)
Flatten(dgrams) ==
    IF dgrams = << >> THEN << >> ELSE Head(dgrams) \o Flatten(Tail(dgrams))

\* The bytes the peer has sent and the transport has not read yet, in the
\* order a reader gets them: over the wrapper the leftover bytes, then the
\* datagrams not received yet.
Unread ==
    IF kind = "tcp" THEN stream
    ELSE SubSeq(rxbuf, 1, leftoverCount) \o Flatten(net)

\* The step makes a readMBAPFrame call, in readResponse or in ReadRequest.
ReadsFrame ==
    \/ pc = "exec" /\ nReads' = nReads + 1
    \/ IsReadRequest /\ nReads' = 1

\* What C15 says of one step.
DecodeAlignedStep ==
    ReadsFrame =>
        /\ last'.err \in { "nil", "ErrUnknownProtocolId" } =>
              /\ Len(last'.hdr) = mbapHeaderLength
              /\ HdrLength(last'.hdr) \in 2..254
              /\ Len(last'.body) = HdrLength(last'.hdr) - 1
              /\ last'.hdr \o last'.body =
                    Take(Unread, 7 + (HdrLength(last'.hdr) - 1))
              /\ Unread' = Drop(Unread, 7 + (HdrLength(last'.hdr) - 1))
              /\ (last'.err = "nil") = (HdrProtocolId(last'.hdr) = 0)
        /\ last'.err = "ErrProtocol" =>
              /\ last'.body = << >>
              /\ HdrLength(last'.hdr) \notin 2..254
        /\ (pc' = "exec" /\ Len(last'.hdr) = mbapHeaderLength) =>
              Take(Unread', mbapHeaderLength) =
                  Take(Drop(Unread, 7 + (HdrLength(last'.hdr) - 1)), mbapHeaderLength)

(* C15: every readMBAPFrame that accepts a frame or refuses it for its     *)
(* protocol id has read the 7 header bytes and the length - 1 body bytes   *)
(* that follow, no more and no less, so that the next read starts at the   *)
(* first byte after the frame (also after the loop of readResponse skipped *)
(* it); a refusal for the length is made before any body byte is read, a   *)
(* refusal for the protocol id after all of them.                          *)
DecodeAligned == [][DecodeAlignedStep]_vars

\* A frame of another protocol was skipped and the frame behind it returned.
ForeignThenAnswer ==
    /\ InExecuteRequest
    /\ result.status = "ok"
    /\ Len(skipped) = 1
    /\ HdrProtocolId(skipped[1]) # 0
    /\ Unread = << >>

\* The ids of the requests written by the calls before the current one.
EarlierIds == { issued[i] : i \in 1..(Len(issued) - 1) }

(* C16: in a sequence of ExecuteRequest calls on one transport (fewer than *)
(* 65536, so that no id is used twice), a frame that carries the id of an  *)
(* earlier call is skipped by the call that reads it and is never the      *)
(* result of a call; a call that succeeds returns a frame with the id that *)
(* call wrote.                                                             *)
NoCrossTalk ==
    (InExecuteRequest /\ result.status \in { "pending", "ok" }) =>
        /\ issued # << >>
        /\ issued[Len(issued)] \notin EarlierIds
        /\ WireTxnId = issued[Len(issued)]
        /\ result.status = "ok" =>
              /\ HdrTxnId(last.hdr) = issued[Len(issued)]
              /\ HdrTxnId(last.hdr) \notin EarlierIds
        /\ (last.err = "nil" /\ HdrTxnId(last.hdr) \in EarlierIds) =>
              /\ pc = "exec"
              /\ result.status = "pending"
              /\ skipped # << >>
              /\ skipped[Len(skipped)] = last.hdr

\* The answer to the first call, which had failed, arrived during the
\* second call: it was skipped and the answer to the second returned.
LateAnswerSkipped ==
    /\ InExecuteRequest
    /\ result.status = "ok"
    /\ issued = << 1, 2 >>
    /\ delivered = 2
    /\ Len(skipped) = 1
    /\ HdrProtocolId(skipped[1]) = 0
    /\ HdrTxnId(skipped[1]) = 1
    /\ HdrTxnId(last.hdr) = 2

\* What C17 says of one step.
ProtocolErrorStep ==
    ReadsFrame =>
        /\ last'.err = "ErrProtocol" =>
              /\ last'.hdr = Take(Unread, mbapHeaderLength)
              /\ Len(last'.hdr) = mbapHeaderLength
              /\ last'.body = << >>
              /\ Unread' = Drop(Unread, mbapHeaderLength)
              /\ (kind = "udp" /\ leftoverCount = 0
                    /\ Len(Head(net)) >= mbapHeaderLength) =>
                    /\ net' = Tail(net)
                    /\ leftoverCount' = Len(Head(net)) - mbapHeaderLength
                    /\ SubSeq(rxbuf', 1, leftoverCount') =
                          Drop(Head(net), mbapHeaderLength)
        /\ (kind = "udp" /\ leftoverCount > 0) =>
              /\ Len(last'.hdr) >= Min(mbapHeaderLength, leftoverCount)
              /\ Take(last'.hdr, leftoverCount) =
                    SubSeq(rxbuf, 1, Min(mbapHeaderLength, leftoverCount))

(* C17: a readMBAPFrame that returns ErrProtocol has read the 7 header     *)
(* bytes and nothing else: the bytes behind them stay unread, and over the *)
(* wrapper the rest of the refused datagram is held as leftover; leftover  *)
(* bytes are the first bytes of the header the next readMBAPFrame reads,   *)
(* in ExecuteRequest as in ReadRequest.                                    *)
ProtocolErrorKeepsRest == [][ProtocolErrorStep]_vars

\* Over the wrapper, the two bytes behind a refused header were read as the
\* start of the header of the next call.
LeftoverReadAsHeader ==
    /\ kind = "udp"
    /\ calls = 2
    /\ nReads = 1
    /\ Len(last.hdr) = mbapHeaderLength
    /\ SubSeq(last.hdr, 1, 2) = << 3, 9 >>

\* What C18 says of one step.
AlignedStep ==
    /\ leftoverCount = 0
    /\ leftoverCount' = 0
    /\ ReadsFrame =>
          /\ last'.recvs = 1
          /\ last'.hdr # << >> =>
                /\ net # << >>
                /\ last'.hdr = Take(Head(net), mbapHeaderLength)
                /\ last'.hdr \o last'.body = Head(net)
                /\ net' = Tail(net)
                /\ last'.err \in { "nil", "ErrUnknownProtocolId" }
          /\ last'.hdr = << >> => (last'.err = "timeout" /\ net' = net)

(* C18: when every datagram holds exactly one complete frame with a legal  *)
(* length field, the wrapper holds no leftover bytes in any state between  *)
(* the steps of the transport (so at the start and at the end of every     *)
(* ExecuteRequest and ReadRequest); every header read starts at the first  *)
(* byte of a datagram, and a readMBAPFrame that decodes a frame makes one  *)
(* network receive and takes that one datagram, whole.                     *)
FrameDatagramAligned == [][AlignedStep]_vars

\* A frame of the largest size, in one datagram, was returned after a
\* stale frame had been skipped: one receive for each.
LargestFrameOneReceive ==
    /\ kind = "udp"
    /\ InExecuteRequest
    /\ result.status = "ok"
    /\ Len(skipped) = 1
    /\ Len(last.hdr) + Len(last.body) = maxTCPFrameLength
    /\ last.recvs = 1
    /\ leftoverCount = 0
    /\ net = << >>

\* The step is a call of op.
IsCall(op) ==
    /\ calls' = calls + 1
    /\ result'.op = op

\* What C19 says of one step.
FrameConditionStep ==
    /\ IsCall("ExecuteRequest") =>
          IF result'.err \in { "ErrSetDeadline", "ErrClosed" }
          THEN lastTxnId' = lastTxnId
          ELSE lastTxnId' = (lastTxnId + 1) % 65536
    /\ IsCall("ReadRequest") =>
          IF result'.status = "ok"
          THEN lastTxnId' = HdrTxnId(last'.hdr)
          ELSE lastTxnId' = lastTxnId
    /\ IsCall("WriteResponse") => lastTxnId' = lastTxnId
    /\ IsCall("Close") => lastTxnId' = lastTxnId
    /\ calls' = calls => lastTxnId' = lastTxnId
    /\ (pc = "exec" /\ nReads' = nReads + 1) => lastTxnId' = lastTxnId

(* C19: lastTxnId changes only in an ExecuteRequest whose SetDeadline      *)
(* succeeded (by 1 modulo 65536, whether or not the Write and the reads    *)
(* that follow succeed) and in a ReadRequest that succeeds (to the id of   *)
(* the frame read); an ExecuteRequest whose SetDeadline fails, a           *)
(* ReadRequest that returns an error, WriteResponse, Close and every       *)
(* iteration of readResponse leave it as it is.                            *)
FrameCondition == [][FrameConditionStep]_vars

\* A transport closed after an ExecuteRequest whose Write failed: the
\* counter had advanced and Close left it.
ClosedKeepsCounter ==
    /\ result.op = "Close"
    /\ pc = "closed"
    /\ lastTxnId = 1
    /\ wire = << >>
    /\ issued = << >>

=============================================================================
